---- MODULE Spec2Model ----
(***************************************************************************)
(* Model of src/wireframe.py: the module-level dataset df, the dashboard   *)
(* controls of app.layout, and the callback update_graphs with its nested  *)
(* function adstock.                                                       *)
(*                                                                         *)
(* Numbers.  The slider values alpha and beta are multiples of 0.01        *)
(* (step=0.01), so they are modelled as integers in hundredths (1..100).   *)
(* A spend is an integer.  The products computed by adstock are decimal    *)
(* fractions; they are modelled exactly, as a record                       *)
(*     [int |-> integer part, frac |-> <<f1, ..., fk>>]                    *)
(* that stands for int + f1/100 + f2/100^2 + ... + fk/100^k, every fi in   *)
(* 0..99 and fk # 0.  The rounding of IEEE doubles is not modelled.        *)
(***************************************************************************)
EXTENDS Integers, Sequences, FiniteSets, TLC

\* ------------------------------------------------------------------ bounds

\* Rows of the dataset (the program has one row per month of 2023).
NumRows == 2

\* Longest series handed to adstock on its own.
MaxSeriesLen == 3

\* ------------------------------------------------------- decimal arithmetic

\* An integer as a decimal.
FromInt(n) == [int |-> n, frac |-> <<>>]

RECURSIVE StripZeros(_)
\* A fraction without its trailing zero limbs (356.2500 = 356.25).
StripZeros(f) ==
    IF f = <<>> THEN <<>>
    ELSE IF f[Len(f)] = 0 THEN StripZeros(SubSeq(f, 1, Len(f) - 1))
    ELSE f

RECURSIVE MulLimbs(_, _)
\* <<carry, limbs>> of the fraction f times the integer k, from the last limb up.
MulLimbs(f, k) ==
    IF f = <<>> THEN <<0, <<>>>>
    ELSE LET rest == MulLimbs(Tail(f), k)
             t    == Head(f) * k + rest[1]
         IN  <<t \div 100, <<t % 100>> \o rest[2]>>

\* The product of a slider value (h hundredths) and the number x: x * h / 100.
Times(h, x) ==
    LET m     == MulLimbs(x.frac, h)
        whole == x.int * h + m[1]
    IN  [int |-> whole \div 100, frac |-> StripZeros(<<whole % 100>> \o m[2])]

\* The sum of an integer spend and a number.
Plus(n, x) == [int |-> n + x.int, frac |-> x.frac]

\* ------------------------------------------------------------------ adstock

RECURSIVE adstock_loop_raw(_, _, _, _, _)
\* The loop carrying over the previous raw spend, series.iloc[i-1].
adstock_loop_raw(series, alpha, beta, result, i) ==
    IF i > Len(series) THEN result
    ELSE adstock_loop_raw(series, alpha, beta,
             Append(result,
                    Plus(series[i], Times(beta, Times(alpha, FromInt(series[i - 1]))))),
             i + 1)

RECURSIVE adstock_loop_sum(_, _, _, _, _)
\* The loop decaying by alpha + beta instead of alpha * beta.
adstock_loop_sum(series, alpha, beta, result, i) ==
    IF i > Len(series) THEN result
    ELSE adstock_loop_sum(series, alpha, beta,
             Append(result, Plus(series[i], Times(alpha + beta, result[i - 1]))),
             i + 1)

RECURSIVE adstock_loop(_, _, _, _, _)
\* for i in range(1, len(series)): result.append(series.iloc[i] + alpha * result[i-1] * beta)
\* (positions are 1-based here: i runs over 2..Len(series)).
adstock_loop(series, alpha, beta, result, i) ==
    IF i > Len(series) THEN result
    ELSE adstock_loop(series, alpha, beta,
             Append(result,
                    Plus(series[i], Times(beta, Times(alpha, result[i - 1])))),
             i + 1)

\* adstock(series, alpha, beta): series.iloc[0] raises IndexError on an empty
\* series; otherwise the list built by the loop is returned.
adstock(series, alpha, beta) ==
    IF Len(series) = 0
    THEN [raised |-> "IndexError", value |-> <<>>]
    ELSE [raised |-> "none",
          value  |-> adstock_loop(series, alpha, beta, <<FromInt(series[1])>>, 2)]

\* ---------------------------------------------------------------- dataset

\* products = ['Pet Food', 'Confectionary', 'Other Food Product']
products == {"Pet Food", "Confectionary", "Other Food Product"}

\* The options of objective-dropdown.
Objectives == {"ROI", "Revenue", "Sales"}

\* Sampled rows <<Product, Paid_Search_Spend, Banner_Ads_Spend>>: a product of
\* np.random.choice(products) and spends inside the ranges of
\* np.random.randint(500, 5000) and np.random.randint(300, 3000).
RowSamples ==
    { <<"Pet Food", 500, 300>>, <<"Pet Food", 3000, 2000>>,
      <<"Confectionary", 3000, 2000>>, <<"Other Food Product", 500, 300>> }

\* The columns of df that the callback's filter and transforms read.
BaseColumns == {"Date", "Product", "Paid_Search_Spend", "Banner_Ads_Spend"}

DerivedColumns == {"Adstock_Paid_Search", "Adstock_Banner_Ads",
                   "Diminishing_Paid_Search", "Diminishing_Banner_Ads"}

\* One row of df: idx is the RangeIndex label, Date the position of the month
\* in pd.date_range (ascending, one row per month).
MakeRow(i, sample) ==
    [idx |-> i - 1, Date |-> i, Product |-> sample[1],
     Paid_Search_Spend |-> sample[2], Banner_Ads_Spend |-> sample[3]]

\* df = pd.DataFrame(data): every dataset the generator can produce over the
\* sampled values.
Datasets ==
    { [columns |-> BaseColumns,
       rows    |-> [i \in 1..NumRows |-> MakeRow(i, c[i])]] :
      c \in [1..NumRows -> RowSamples] }

\* ----------------------------------------------------------------- controls

\* Sampled slider positions, in hundredths: value=0.5 and max=1.0.
SliderSamples == {50, 100}

\* Sampled budget-input values: 800 admits every sampled row (the cheapest
\* has a combined spend of exactly 800), 1000 is the layout's value.
BudgetSamples == {800, 1000}

\* The values the layout gives the controls (value=, start_date=, end_date=).
LayoutDefaults ==
    [objective |-> "Sales", selected_products |-> products,
     budget_threshold |-> 1000, alpha |-> 50, beta |-> 50,
     start_date |-> 1, end_date |-> NumRows]

\* ------------------------------------------------------------------- frames

\* A frame a local name is bound to: its columns and rows, and whether the
\* name is bound to the module-level object df itself (is_df) or to a new
\* object.
TheDf(d) == [columns |-> d.columns, rows |-> d.rows, is_df |-> TRUE]

RECURSIVE TakeMasked(_, _)
TakeMasked(rows, mask) ==
    IF rows = <<>> THEN <<>>
    ELSE (IF Head(mask) THEN <<Head(rows)>> ELSE <<>>)
         \o TakeMasked(Tail(rows), Tail(mask))

\* frame[mask] handing back the frame itself when the mask keeps every row.
BoolIndexNoCopy(frame, mask) ==
    IF \A i \in 1..Len(mask) : mask[i] THEN frame
    ELSE [columns |-> frame.columns, rows |-> TakeMasked(frame.rows, mask),
          is_df |-> FALSE]

\* frame[mask] with a boolean Series: a new frame holding the rows whose mask
\* entry is True, in the frame's order.
BoolIndex(frame, mask) ==
    [columns |-> frame.columns, rows |-> TakeMasked(frame.rows, mask),
     is_df |-> FALSE]

\* (frame['Date'] >= start_date) | (frame['Date'] <= end_date)
DateMaskOr(frame, start_date, end_date) ==
    [i \in 1..Len(frame.rows) |->
        frame.rows[i].Date >= start_date \/ frame.rows[i].Date <= end_date]

\* The date comparison made on the rows' positions instead of their dates.
DateMaskByPosition(frame, start_date, end_date) ==
    [i \in 1..Len(frame.rows) |-> i >= start_date /\ i <= end_date]

\* (df['Date'] >= start_date) & (df['Date'] <= end_date)
DateMask(frame, start_date, end_date) ==
    [i \in 1..Len(frame.rows) |->
        frame.rows[i].Date >= start_date /\ frame.rows[i].Date <= end_date]

\* filtered_df['Product'].isin(selected_products)
ProductMask(frame, selected_products) ==
    [i \in 1..Len(frame.rows) |->
        frame.rows[i].Product \in selected_products]

\* (Paid_Search_Spend + Banner_Ads_Spend) > budget_threshold
SpendMaskStrict(frame, budget_threshold) ==
    [i \in 1..Len(frame.rows) |->
        frame.rows[i].Paid_Search_Spend + frame.rows[i].Banner_Ads_Spend
            > budget_threshold]

\* (filtered_df['Paid_Search_Spend'] + filtered_df['Banner_Ads_Spend']) >= budget_threshold
SpendMask(frame, budget_threshold) ==
    [i \in 1..Len(frame.rows) |->
        frame.rows[i].Paid_Search_Spend + frame.rows[i].Banner_Ads_Spend
            >= budget_threshold]

\* The three successive selections that open update_graphs.
FilterStage(frame, start_date, end_date, selected_products, budget_threshold) ==
    LET f1 == BoolIndex(frame, DateMask(frame, start_date, end_date))
        f2 == BoolIndex(f1, ProductMask(f1, selected_products))
    IN  BoolIndex(f2, SpendMask(f2, budget_threshold))

\* frame[name]: the column as a list of values, in row order.
Column(frame, name) ==
    [i \in 1..Len(frame.rows) |-> frame.rows[i][name]]

\* base ** exponent, the exponent a slider value in hundredths; kept as the
\* term itself.
Pow(base, exponent) == [pow_base |-> base, pow_exponent |-> exponent]

\* frame[name] ** exponent: a Series, one entry per row under the row's label.
PowSeries(frame, name, exponent) ==
    [i \in 1..Len(frame.rows) |->
        [idx |-> frame.rows[i].idx, value |-> Pow(frame.rows[i][name], exponent)]]

\* A row with the value v under the column name.
WithField(row, name, v) ==
    [k \in DOMAIN row \cup {name} |-> IF k = name THEN v ELSE row[k]]

\* frame[name] = values, values a list: its length must match the frame's;
\* entries go to the rows by position.
SetItemList(frame, name, values) ==
    IF Len(values) # Len(frame.rows)
    THEN [raised |-> "ValueError", frame |-> frame]
    ELSE [raised |-> "none",
          frame  |-> [columns |-> frame.columns \cup {name},
                      rows    |-> [i \in 1..Len(frame.rows) |->
                                      WithField(frame.rows[i], name, values[i])],
                      is_df   |-> frame.is_df]]

\* frame[name] = values, values a Series: entries go to the rows by label.
SetItemSeries(frame, name, values) ==
    [columns |-> frame.columns \cup {name},
     rows    |-> [i \in 1..Len(frame.rows) |->
                     WithField(frame.rows[i], name,
                         values[CHOOSE j \in 1..Len(values) :
                                    values[j].idx = frame.rows[i].idx].value)],
     is_df   |-> frame.is_df]

\* -------------------------------------------------------------------- state

VARIABLES
    df,           \* the module-level DataFrame: [columns, rows]
    controls,     \* the current values of the seven callback inputs
    outcome,      \* how the last run of update_graphs ended; "none" before the first
    filtered_df,  \* the local filtered_df when that run ended: [columns, rows]
    pageload,     \* what the run made at page load ended with (history variable)
    call          \* adstock called on its own: its arguments and what it gave

vars == <<df, controls, outcome, filtered_df, pageload, call>>

NoFrame == [columns |-> {}, rows |-> <<>>]

NoRun == [outcome |-> "none", filtered_df |-> NoFrame]

NoCall == [series |-> <<>>, alpha |-> 1, beta |-> 1,
           out |-> [raised |-> "idle", value |-> <<>>]]

\* ---------------------------------------------------------------- callback

\* Lines 120-132 of update_graphs on the filtered frame: the two adstock
\* columns, then the two diminishing-returns columns.  An exception leaves
\* the callback at once, with filtered_df as it is then.
TransformStage(local, alpha, beta) ==
    LET paid   == adstock(Column(local, "Paid_Search_Spend"), alpha, beta)
        s1     == SetItemList(local, "Adstock_Paid_Search", paid.value)
        banner == adstock(Column(s1.frame, "Banner_Ads_Spend"), alpha, beta)
        s2     == SetItemList(s1.frame, "Adstock_Banner_Ads", banner.value)
        s3     == SetItemSeries(s2.frame, "Diminishing_Paid_Search",
                                PowSeries(s2.frame, "Paid_Search_Spend", alpha))
        s4     == SetItemSeries(s3, "Diminishing_Banner_Ads",
                                PowSeries(s3, "Banner_Ads_Spend", beta))
    IN  IF paid.raised # "none"
        THEN [outcome |-> paid.raised, filtered_df |-> local]
        ELSE IF s1.raised # "none"
        THEN [outcome |-> s1.raised, filtered_df |-> local]
        ELSE IF banner.raised # "none"
        THEN [outcome |-> banner.raised, filtered_df |-> s1.frame]
        ELSE IF s2.raised # "none"
        THEN [outcome |-> s2.raised, filtered_df |-> s1.frame]
        ELSE [outcome |-> "ok", filtered_df |-> s4]

\* update_graphs reusing the previous run's filtered_df while the date range
\* is the one of that run.
update_graphs_cached(objective, selected_products, budget_threshold, alpha, beta, start_date, end_date) ==
    IF outcome = "ok" /\ controls.start_date = start_date
                      /\ controls.end_date = end_date
    THEN [outcome |-> "ok",
          filtered_df |-> [columns |-> filtered_df.columns,
                           rows |-> filtered_df.rows, is_df |-> FALSE]]
    ELSE TransformStage(FilterStage(TheDf(df), start_date, end_date,
                                    selected_products, budget_threshold),
                        alpha, beta)

\* update_graphs skipping the budget filter unless the objective is 'Sales'.
update_graphs_by_objective(objective, selected_products, budget_threshold, alpha, beta, start_date, end_date) ==
    TransformStage(FilterStage(TheDf(df), start_date, end_date, selected_products,
                               IF objective = "Sales" THEN budget_threshold ELSE 0),
                   alpha, beta)

\* update_graphs up to the last assignment to filtered_df: how the run ends
\* ("ok", or the exception that leaves the callback) and the local
\* filtered_df at that point.  The six figures are then built from
\* filtered_df without assigning to it; objective is not read.
update_graphs(objective, selected_products, budget_threshold, alpha, beta, start_date, end_date) ==
    TransformStage(FilterStage(TheDf(df), start_date, end_date,
                               selected_products, budget_threshold),
                   alpha, beta)

\* One run of the callback with the control values c.  An assignment made
\* through a name bound to df itself lands in df.
Fire(c) ==
    \E r \in {update_graphs(c.objective, c.selected_products, c.budget_threshold,
                           c.alpha, c.beta, c.start_date, c.end_date)} :
      \E f \in {[columns |-> r.filtered_df.columns, rows |-> r.filtered_df.rows]} :
        /\ controls' = c
        /\ outcome' = r.outcome
        /\ filtered_df' = f
        /\ df' = IF r.filtered_df.is_df THEN f ELSE df
        /\ pageload' = IF outcome = "none"
                       THEN [outcome |-> r.outcome, filtered_df |-> f]
                       ELSE pageload
        /\ UNCHANGED call

\* ------------------------------------------------------------------ actions

Init ==
    /\ df \in Datasets
    /\ controls = LayoutDefaults
    /\ outcome = "none"
    /\ filtered_df = NoFrame
    /\ pageload = NoRun
    /\ call = NoCall

\* The page loads: the callback runs once with the layout's values.
InitialCall ==
    /\ outcome = "none"
    /\ Fire(controls)

SetObjective ==
    /\ outcome # "none"
    /\ \E v \in Objectives : Fire([controls EXCEPT !.objective = v])

SetProducts ==
    /\ outcome # "none"
    /\ \E v \in SUBSET products : Fire([controls EXCEPT !.selected_products = v])

SetBudget ==
    /\ outcome # "none"
    /\ \E v \in BudgetSamples : Fire([controls EXCEPT !.budget_threshold = v])

SetAlpha ==
    /\ outcome # "none"
    /\ \E v \in SliderSamples : Fire([controls EXCEPT !.alpha = v])

SetBeta ==
    /\ outcome # "none"
    /\ \E v \in SliderSamples : Fire([controls EXCEPT !.beta = v])

SetStartDate ==
    /\ outcome # "none"
    /\ \E v \in 1..NumRows : Fire([controls EXCEPT !.start_date = v])

SetEndDate ==
    /\ outcome # "none"
    /\ \E v \in 1..NumRows : Fire([controls EXCEPT !.end_date = v])

Next ==
    \/ InitialCall
    \/ SetObjective
    \/ SetProducts
    \/ SetBudget
    \/ SetAlpha
    \/ SetBeta
    \/ SetStartDate
    \/ SetEndDate

Spec == Init /\ [][Next]_vars

\* ------------------------------------------------- adstock, called on its own

\* Sampled non-negative spends and slider positions (min=0.01, value=0.5,
\* max=1.0, in hundredths) for a call of adstock outside the callback.
SeriesSamples == {0, 100, 200, 300}

AdstockSliderSamples == {1, 50, 100}

SeriesInputs == UNION { [1..n -> SeriesSamples] : n \in 0..MaxSeriesLen }

InitAdstock ==
    /\ df = NoFrame
    /\ controls = LayoutDefaults
    /\ outcome = "none"
    /\ filtered_df = NoFrame
    /\ pageload = NoRun
    /\ \E s \in SeriesInputs, a \in AdstockSliderSamples, b \in AdstockSliderSamples :
          call = [series |-> s, alpha |-> a, beta |-> b,
                  out |-> [raised |-> "pending", value |-> <<>>]]

AdstockCall ==
    /\ call.out.raised = "pending"
    /\ call' = [call EXCEPT !.out = adstock(call.series, call.alpha, call.beta)]
    /\ UNCHANGED <<df, controls, outcome, filtered_df, pageload>>

NextAdstock == AdstockCall

SpecAdstock == InitAdstock /\ [][NextAdstock]_vars

\* ================================================================== claims

\* The row's part in the columns of df.
Base(row) ==
    [idx |-> row.idx, Date |-> row.Date, Product |-> row.Product,
     Paid_Search_Spend |-> row.Paid_Search_Spend,
     Banner_Ads_Spend |-> row.Banner_Ads_Spend]

\* The three predicates of the filter on one row, under the control values c.
Retained(row, c) ==
    /\ c.start_date <= row.Date
    /\ row.Date <= c.end_date
    /\ row.Product \in c.selected_products
    /\ row.Paid_Search_Spend + row.Banner_Ads_Spend >= c.budget_threshold

\* The positions of df whose rows the predicates retain.
RetainedPositions == { i \in 1..Len(df.rows) : Retained(df.rows[i], controls) }

\* The number x times the integer k, exactly.
TimesInt(x, k) ==
    LET m == MulLimbs(x.frac, k)
    IN  [int |-> x.int * k + m[1], frac |-> StripZeros(m[2])]

RECURSIVE FracLeq(_, _)
FracLeq(f, g) ==
    IF f = <<>> THEN TRUE
    ELSE IF g = <<>> THEN \A i \in 1..Len(f) : f[i] = 0
    ELSE IF Head(f) # Head(g) THEN Head(f) < Head(g)
    ELSE FracLeq(Tail(f), Tail(g))

\* x <= y for two decimals.
Leq(x, y) == x.int < y.int \/ (x.int = y.int /\ FracLeq(x.frac, y.frac))

RECURSIVE PrefixSum(_, _)
\* series[1] + ... + series[i]
PrefixSum(series, i) == IF i = 0 THEN 0 ELSE series[i] + PrefixSum(series, i - 1)

\* C1: after every run of update_graphs, the filtered rows are exactly the
\* rows of df that satisfy all three predicates (date range, product
\* membership, combined spend at least the threshold), each once, unchanged
\* in their df columns, and in df's order.
C1_FilterSelectsConjunction ==
    outcome # "none" =>
        LET rows == filtered_df.rows
        IN  /\ Len(rows) = Cardinality(RetainedPositions)
            /\ \A k \in 1..Len(rows) :
                   \E i \in RetainedPositions : Base(rows[k]) = df.rows[i]
            /\ \A k, l \in 1..Len(rows) : k < l => rows[k].idx < rows[l].idx

\* A run that retained some rows of df and dropped others.
C1_Witness ==
    /\ outcome = "ok"
    /\ Len(filtered_df.rows) >= 1
    /\ Len(filtered_df.rows) < Len(df.rows)
    /\ filtered_df.rows[1].idx > 0

\* C2 (as claimed): a run whose filtered dataset is empty completes, with the
\* four derived columns present and empty.
C2_EmptyFilteredCompletes ==
    (outcome # "none" /\ filtered_df.rows = <<>>) =>
        (outcome = "ok" /\ DerivedColumns \subseteq filtered_df.columns)

\* C3: for a non-empty series S, adstock(S, alpha, beta) is the list R with
\* R[1] = S[1] and R[i] = S[i] + alpha * R[i-1] * beta for every later i,
\* stated as 10000 * (R[i] - S[i]) = (100 alpha) * (100 beta) * R[i-1]; and
\* adstock([100, 200, 300], 0.5, 0.5) = [100, 225, 356.25].
C3_AdstockRecurrence ==
    (call.out.raised \notin {"idle", "pending"} /\ Len(call.series) >= 1) =>
        LET S == call.series
            R == call.out.value
        IN  /\ call.out.raised = "none"
            /\ Len(R) = Len(S)
            /\ R[1] = FromInt(S[1])
            /\ \A i \in 2..Len(S) :
                   TimesInt(Plus(0 - S[i], R[i]), 10000)
                       = TimesInt(R[i - 1], call.alpha * call.beta)
            /\ (S = <<100, 200, 300>> /\ call.alpha = 50 /\ call.beta = 50) =>
                   R = <<FromInt(100), FromInt(225), [int |-> 356, frac |-> <<25>>]>>

\* adstock has returned for [100, 200, 300] with alpha = beta = 0.5.
C3_Witness ==
    /\ call.out.raised = "none"
    /\ call.series = <<100, 200, 300>>
    /\ call.alpha = 50
    /\ call.beta = 50
    /\ Len(call.out.value) = 3

\* C4: after every run with start_date > end_date, or with no product
\* selected, the filter stage has produced the empty row set, and the run
\* got past the filter stage (it ended "ok" or with the IndexError of adstock).
C4_InvalidRangeYieldsEmpty ==
    (outcome # "none"
        /\ (controls.start_date > controls.end_date
              \/ controls.selected_products = {})) =>
        (filtered_df.rows = <<>> /\ outcome \in {"ok", "IndexError"})

\* A run with an inverted date range while every row passes the other two
\* predicates.
C4_Witness ==
    /\ outcome # "none"
    /\ controls.start_date > controls.end_date
    /\ controls.selected_products = products
    /\ controls.budget_threshold = 800
    /\ filtered_df.rows = <<>>

\* C5 (as claimed): after every run, each of the four derived columns is
\* there with one entry per filtered row, entry i made from row i: the
\* diminishing values are row i's spends to the powers alpha and beta, the
\* adstocked values start at row 1's spends and follow the recurrence.
C5_DerivedSeriesAligned ==
    outcome # "none" =>
        LET rows == filtered_df.rows
        IN  /\ DerivedColumns \subseteq filtered_df.columns
            /\ \A i \in 1..Len(rows) :
                   /\ DerivedColumns \subseteq DOMAIN rows[i]
                   /\ rows[i].Diminishing_Paid_Search
                          = Pow(rows[i].Paid_Search_Spend, controls.alpha)
                   /\ rows[i].Diminishing_Banner_Ads
                          = Pow(rows[i].Banner_Ads_Spend, controls.beta)
                   /\ i = 1 => /\ rows[i].Adstock_Paid_Search
                                     = FromInt(rows[i].Paid_Search_Spend)
                               /\ rows[i].Adstock_Banner_Ads
                                     = FromInt(rows[i].Banner_Ads_Spend)
                   /\ i > 1 =>
                        /\ TimesInt(Plus(0 - rows[i].Paid_Search_Spend,
                                         rows[i].Adstock_Paid_Search), 10000)
                             = TimesInt(rows[i - 1].Adstock_Paid_Search,
                                        controls.alpha * controls.beta)
                        /\ TimesInt(Plus(0 - rows[i].Banner_Ads_Spend,
                                         rows[i].Adstock_Banner_Ads), 10000)
                             = TimesInt(rows[i - 1].Adstock_Banner_Ads,
                                        controls.alpha * controls.beta)

\* C6: no step changes df: its columns and rows stay those it was built with.
C6_DfReadOnly == [][df' = df]_vars

\* A run that kept every row of df and assigned the four derived columns to
\* filtered_df.
C6_Witness ==
    /\ outcome = "ok"
    /\ Len(filtered_df.rows) = NumRows
    /\ DerivedColumns \subseteq filtered_df.columns
    /\ df.columns = BaseColumns

\* C7: a run depends on the control values alone: a run with the control
\* values of the run before it ends as that run did, with the same
\* filtered_df, and a run with the layout's values, whatever runs came
\* before, ends as the run at page load did.
C7_RunsIndependentOfHistory ==
    [][/\ (outcome # "none" /\ controls' = controls) =>
              (outcome' = outcome /\ filtered_df' = filtered_df)
       /\ controls' = LayoutDefaults =>
              (outcome' = pageload'.outcome
                 /\ filtered_df' = pageload'.filtered_df)]_vars

\* A run after the page load, with other control values, that came out
\* differently from the run at page load.
C7_Witness ==
    /\ outcome = "ok"
    /\ pageload.outcome = "ok"
    /\ controls # LayoutDefaults
    /\ filtered_df # pageload.filtered_df

\* C8: filtering the filtered rows of a run again, with the same control
\* values, gives the same frame.
C8_FilterIdempotent ==
    outcome # "none" =>
        LET again == FilterStage(
                         [columns |-> filtered_df.columns,
                          rows |-> filtered_df.rows, is_df |-> FALSE],
                         controls.start_date, controls.end_date,
                         controls.selected_products, controls.budget_threshold)
        IN  [columns |-> again.columns, rows |-> again.rows] = filtered_df

\* A run whose date range begins after the first row and that retained a row.
C8_Witness ==
    /\ outcome = "ok"
    /\ controls.start_date > 1
    /\ Len(filtered_df.rows) >= 1
    /\ controls.budget_threshold = 1000

\* C9: a run whose control values differ from those of the run before it in
\* the objective alone ends as that run did, with the same filtered_df.
C9_ObjectiveIsNoOp ==
    [][(/\ outcome # "none"
        /\ controls'.objective # controls.objective
        /\ [controls' EXCEPT !.objective = controls.objective] = controls) =>
           (outcome' = outcome /\ filtered_df' = filtered_df)]_vars

\* A completed run under an objective other than the layout's, with a budget
\* threshold that drops some row of df.
C9_Witness ==
    /\ outcome = "ok"
    /\ controls.objective = "ROI"
    /\ controls.selected_products = products
    /\ controls.start_date = 1
    /\ controls.end_date = NumRows
    /\ controls.budget_threshold = 1000
    /\ Len(filtered_df.rows) < NumRows

\* C10: for a non-empty series S of non-negative spends,
\* S[i] <= adstock(S, alpha, beta)[i] <= S[1] + ... + S[i] at every i.
C10_AdstockBounded ==
    (call.out.raised \notin {"idle", "pending"} /\ Len(call.series) >= 1) =>
        /\ call.out.raised = "none"
        /\ Len(call.out.value) = Len(call.series)
        /\ \A i \in 1..Len(call.series) :
               /\ Leq(FromInt(call.series[i]), call.out.value[i])
               /\ Leq(call.out.value[i], FromInt(PrefixSum(call.series, i)))

\* adstock has returned for a series of the longest length with alpha = beta
\* = 1.0, where the last output is the sum of all spends.
C10_Witness ==
    /\ call.out.raised = "none"
    /\ Len(call.series) = MaxSeriesLen
    /\ call.alpha = 100
    /\ call.beta = 100
    /\ call.series[1] > 0
    /\ call.out.value[MaxSeriesLen] = FromInt(PrefixSum(call.series, MaxSeriesLen))

====
